---------------------------- MODULE Spec2Model ----------------------------
(***************************************************************************)
(* Offline-first synchronisation engine of the FitnessTracker repository:  *)
(* the client's change queue (SyncQueueService), entity store              *)
(* (DatabaseService), sync orchestrator (SyncManagerService) and the       *)
(* server's reconciliation service (SyncService, POST /sync).              *)
(* Spec is the client with its server; SpecServer is POST /sync under any  *)
(* request; SpecStore is the entity store under any returned mappings.     *)
(***************************************************************************)
EXTENDS Integers, Sequences, FiniteSets, TLC

(* ------------------------------ bounds --------------------------------- *)
\* Queue entries ever appended by the explored runs.
MaxQueue == 2
\* syncNow() runs started in one explored behaviour.
MaxRuns == 2
\* The values of config.batchSize the explored configurations set.
BatchSizes == {1, 2}

(* ------------------------- program constants --------------------------- *)
maxConsecutiveFailures == 3
\* retryWithBackoff(fn, maxAttempts = 3, baseDelayMs = 100)
maxAttempts == 3
DefaultBatchSize == 100

(* ------------------------------ domains -------------------------------- *)
DataTypes == {"template", "instance", "log"}
Operations == {"create", "update", "delete"}
\* One local record id per entity table.
RecordIds == {"t1", "i1", "l1"}
TypeOf(rid) == CASE rid = "t1" -> "template" [] rid = "i1" -> "instance" [] OTHER -> "log"
Contents == {"a", "b"}
\* cloudId: 0 is "undefined", -1 a cloudId that came with an imported record,
\* 1, 2, ... the uuids minted by the server.
NoCloudId == 0
ImportedCloudId == 0 - 1
NoRecord == [exists |-> FALSE, cloudId |-> NoCloudId, content |-> "a", updatedAt |-> 0]
\* The two call sites of syncNow(): the auto-sync effect and the manual button.
Callers == {"auto", "manual"}

\* Requests inside resolveUserId() at the same time, and a request that has
\* not called it.
Resolvers == {"r1", "r2"}
IdleResolver ==
    [pc |-> "idle", attempt |-> 0, newUserId |-> 0, id |-> 0,
     exhausted |-> FALSE, faulted |-> FALSE, lostRace |-> FALSE]
NotResolving == [p \in Resolvers |-> IdleResolver]

\* Calls of waitForOnline() that may be pending at the same time, and a call
\* not made yet.
Waiters == {"w1", "w2"}
IdleWaiter ==
    [pc |-> "idle", result |-> FALSE, effect |-> FALSE, dirty |-> FALSE,
     timer |-> "none", remaining |-> 0]
NotWaiting == [w \in Waiters |-> IdleWaiter]

VARIABLES
    config,               \* SyncManagerService.config (batchSize)
    online,               \* ConnectivityService.isOnline
    db,                   \* DatabaseService tables: db[type][id]
    syncQueue,            \* SyncQueueService.syncQueueTable, in ++id order
    queueCount,           \* SyncQueueService.queueCount signal
    hasPendingChanges,    \* SyncQueueService.hasPendingChanges signal
    queueSyncError,       \* SyncQueueService.syncError signal
    queueLastSyncTime,    \* SyncQueueService.lastSyncTime signal
    isSyncing,            \* SyncManagerService.isSyncing signal
    consecutiveFailures,  \* SyncManagerService.consecutiveFailures
    lastSyncTime,         \* SyncManagerService.lastSyncTime (0: null)
    syncError,            \* SyncManagerService.syncError ("" : null)
    pc,                   \* per call site: position inside syncNow()
    run,                  \* per call site: locals of its syncNow() call
    net,                  \* per call site: its HTTP request / response
    runNo,                \* number of runs started (the client's clock)
    server,               \* backing store of the reconciliation service
    hist,                 \* observations of the run (history, not program state)
    call,                 \* SpecServer, SpecStore: the last request handled, with
                          \* the state before it (history, not program state)
    resolving,            \* SpecResolve: per request, its position inside
                          \* resolveUserId() and that call's locals
    waiting               \* SpecWait: per waitForOnline() call, its promise,
                          \* its effect and its timer

clientVars == <<config, online, db, syncQueue, queueCount, hasPendingChanges, queueSyncError,
                queueLastSyncTime, isSyncing, consecutiveFailures, lastSyncTime,
                syncError, pc, run, net, runNo>>
clientVarsButNet == <<config, online, db, syncQueue, queueCount, hasPendingChanges, queueSyncError,
                      queueLastSyncTime, isSyncing, consecutiveFailures, lastSyncTime,
                      syncError, pc, run, runNo>>
vars == <<clientVars, server, hist, call, resolving, waiting>>

(* ------------------------- small helpers ------------------------------- *)
Range(s) == {s[k] : k \in DOMAIN s}
Min(a, b) == IF a < b THEN a ELSE b

(* ------------------- SyncQueueService (change queue) ------------------- *)
\* A SyncQueueItem as addToQueue() builds it; its ++id is its position, the
\* explored runs never deleting entries.
NewItem(id, dataType, operation, recordId) ==
    [id |-> id, dataType |-> dataType, operation |-> operation,
     recordId |-> recordId, synced |-> FALSE]

\* getPendingItems(): allItems.filter(item => !item.synced)
IsPending(item) == ~item.synced
getPendingItems(q) == SelectSeq(q, IsPending)

\* updateQueueStatus(): the two signals as it sets them from the table.
QueueCountOf(q) == Len(q)
HasPendingOf(q) == Len(getPendingItems(q)) > 0

\* markMultipleAsSynced(ids): update(id, {synced: true}) for each id.
MarkedSynced(q, ids) ==
    [k \in DOMAIN q |-> IF q[k].id \in ids THEN [q[k] EXCEPT !.synced = TRUE] ELSE q[k]]

(* -------------------- DatabaseService (entity store) ------------------- *)
\* getWorkoutTemplate / getWorkoutInstance: the stored record or undefined.
getRecord(store, rid) == store[rid]

\* An update that writes the whole object, cloudId included: the variant
\* under which a stored cloudId is expected to be overwritten.
updateWholeRecord(store, template, rid, now) ==
    IF store[rid].exists THEN [store EXCEPT ![rid] = [template EXCEPT !.updatedAt = now]]
    ELSE store

\* updateWorkoutTemplate(template): template.updatedAt = new Date(), then
\* Table.update(template.id, {name, ..., updatedAt, isActive}); cloudId is
\* not among the fields it writes.
updateWorkoutTemplate(store, template, rid, now) ==
    IF store[rid].exists
    THEN [store EXCEPT ![rid].content = template.content, ![rid].updatedAt = now]
    ELSE store

\* updateWorkoutInstance(instance): Table.update(instance.id, {templateId,
\* ..., totalExercises}); cloudId is not among the fields it writes.
updateWorkoutInstance(store, instance, rid) ==
    IF store[rid].exists
    THEN [store EXCEPT ![rid].content = instance.content]
    ELSE store

\* addWorkoutTemplate / addWorkoutInstance / addExerciseLog / importData:
\* Table.add stores the record as given, under a key not yet present; a
\* template comes with the updatedAt its builder gave it.
addRecord(store, rid, content, cloudId, now) ==
    [store EXCEPT ![rid] = [exists |-> TRUE, cloudId |-> cloudId, content |-> content,
                            updatedAt |-> IF TypeOf(rid) = "template" THEN now ELSE 0]]

\* DatabaseService has no getExerciseLog / updateExerciseLog member: calling
\* either from the orchestrator throws a TypeError.
StoreCanRead(dataType) == dataType \in {"template", "instance"}

\* createdAt / updatedAt are set on templates and logs; startWorkout() builds
\* instances without them.
HasTimestamps(dataType) == dataType # "instance"

(* ------------------ SyncManagerService (orchestrator) ------------------ *)
\* An element carrying the content the record was created with, as a queue
\* entry holding a snapshot would give: the variant under which an edit made
\* after the enqueue is expected not to be the one delivered.
SnapshotAtCreate(store, rid) ==
    [id |-> rid, cloudId |-> store[rid].cloudId, content |-> "a",
     hasTs |-> HasTimestamps(TypeOf(rid))]

\* sanitizeTemplate / sanitizeInstance: the stored record, spread, as the
\* element sent for it.
Sanitized(store, rid) ==
    [id |-> rid, cloudId |-> store[rid].cloudId, content |-> store[rid].content,
     hasTs |-> HasTimestamps(TypeOf(rid))]

\* buildSyncPayload: one loop over the items; deletes are skipped, an item
\* whose record is missing or whose read throws adds nothing.
Sendable(store, item) ==
    /\ item.operation # "delete"
    /\ StoreCanRead(item.dataType)
    /\ getRecord(store, item.recordId).exists

ElementsOf(items, store, dataType) ==
    LET sel == SelectSeq(items, LAMBDA it : it.dataType = dataType /\ Sendable(store, it))
    IN  [k \in 1..Len(sel) |-> Sanitized(store, sel[k].recordId)]

buildSyncPayload(items, store) ==
    [workoutTemplates |-> ElementsOf(items, store, "template"),
     workoutInstances |-> ElementsOf(items, store, "instance"),
     exerciseLogs     |-> ElementsOf(items, store, "log")]

\* syncBatch: !payload.workoutTemplates && !payload.workoutInstances && ...
NoDataToSend(payload) ==
    /\ payload.workoutTemplates = <<>>
    /\ payload.workoutInstances = <<>>
    /\ payload.exerciseLogs = <<>>

\* A slicing that stops one item short: the variant under which the batches
\* are expected not to cover the pending entries.
BatchAtShort(items, batchSize, k) ==
    SubSeq(items, (k - 1) * batchSize + 1, Min(k * batchSize, Len(items)) - 1)

\* createBatches(items, batchSize): items.slice(i, i + batchSize) for
\* i = 0, batchSize, ...
NumBatches(items, batchSize) == (Len(items) + batchSize - 1) \div batchSize
BatchAt(items, batchSize, k) ==
    SubSeq(items, (k - 1) * batchSize + 1, Min(k * batchSize, Len(items)))

\* updateLocalWithCloudIds, template mappings: get, set cloudId on the
\* object read, updateWorkoutTemplate(object).
RECURSIVE ApplyTemplateMappings(_, _, _)
ApplyTemplateMappings(store, mappings, now) ==
    IF mappings = <<>> THEN store
    ELSE LET m == Head(mappings)
             template == getRecord(store, m.localId)
             next == IF m.localId \in DOMAIN store /\ template.exists
                     THEN updateWorkoutTemplate(store, [template EXCEPT !.cloudId = m.id],
                                                m.localId, now)
                     ELSE store
         IN  ApplyTemplateMappings(next, Tail(mappings), now)

RECURSIVE ApplyInstanceMappings(_, _)
ApplyInstanceMappings(store, mappings) ==
    IF mappings = <<>> THEN store
    ELSE LET m == Head(mappings)
             instance == getRecord(store, m.localId)
             next == IF m.localId \in DOMAIN store /\ instance.exists
                     THEN updateWorkoutInstance(store, [instance EXCEPT !.cloudId = m.id],
                                                m.localId)
                     ELSE store
         IN  ApplyInstanceMappings(next, Tail(mappings))

\* The log mappings call getExerciseLog, which throws; syncBatch catches it,
\* the template and instance mappings before it having been applied.
updateLocalWithCloudIds(store, data, now) ==
    ApplyInstanceMappings(ApplyTemplateMappings(store, data.workoutTemplates, now),
                          data.workoutInstances)

(* ------------- SyncService / POST /sync (reconciliation) --------------- *)
\* The account handle the client is configured with, and how resolveUserId's
\* uuidRegex classifies a userId string.
ClientUserId == [kind |-> "handle", value |-> "jc.sayers10@gmail.com"]
IsUuidFormat(userId) == userId.kind = "uuid"

\* resolveUserId with the storage answering: the identifier itself when it has
\* uuid format, else the id of the users row with that email, else a row
\* inserted under a fresh uuidv4().
ResolveUserId(s, userId) ==
    IF IsUuidFormat(userId) THEN [server |-> s, id |-> userId.value]
    ELSE LET existingUsers == {u \in s.users : u.email = userId.value}
         IN  IF existingUsers # {}
             THEN [server |-> s, id |-> (CHOOSE u \in existingUsers : TRUE).id]
             ELSE [server |-> [s EXCEPT !.uuid = s.uuid + 1,
                                        !.users = s.users \cup
                                            {[id |-> s.uuid + 1, email |-> userId.value]}],
                   id |-> s.uuid + 1]

\* const uuid = template.cloudId || uuidv4(): the k-th element's upsert key,
\* uuidv4() being called once for every element without cloudId, in order.
MintedUpTo(elems, k) == Cardinality({j \in 1..k : elems[j].cloudId = NoCloudId})
UpsertKey(elems, uuid, k) ==
    IF elems[k].cloudId # NoCloudId THEN elems[k].cloudId ELSE uuid + MintedUpTo(elems, k)

\* A result that reports only the rows inserted under a fresh uuid: the
\* variant under which the response is expected to miss written rows.
MappingsOfMinted(elems, uuid) ==
    LET all == [k \in 1..Len(elems) |->
                   [id |-> UpsertKey(elems, uuid, k), localId |-> elems[k].id,
                    minted |-> elems[k].cloudId = NoCloudId]]
        kept == SelectSeq(all, LAMBDA m : m.minted)
    IN  [k \in 1..Len(kept) |-> [id |-> kept[k].id, localId |-> kept[k].localId]]

\* mappings.push({ id: uuid, localId: template.id })
MappingsOf(elems, uuid) ==
    [k \in 1..Len(elems) |-> [id |-> UpsertKey(elems, uuid, k), localId |-> elems[k].id]]

\* The rows handed to upsert: created_at / updated_at are the element's own
\* (stamp 0) or, the route defaulting them to new Date(), the server's clock.
\* ref is an instance's template_id: templateIdMap.get(templateId) (the cloud
\* id mapped in this request) || the local templateId kept (0).
RowsOf(elems, uuid, userId, now, ref) ==
    [k \in 1..Len(elems) |->
        [id |-> UpsertKey(elems, uuid, k), local_id |-> elems[k].id, user_id |-> userId,
         content |-> elems[k].content, stamp |-> IF elems[k].hasTs THEN 0 ELSE now,
         ref |-> ref]]

\* .upsert(data, { onConflict: 'id' }): one command; a command naming the same
\* id twice is rejected by the store as a whole.
UpsertAccepted(rows) == \A j, k \in DOMAIN rows : rows[j].id = rows[k].id => j = k
Upserted(table, rows) ==
    {r \in table : \A k \in DOMAIN rows : rows[k].id # r.id} \cup Range(rows)

\* syncWorkoutTemplates / syncWorkoutInstances / syncExerciseLogs: the result
\* object, with the table and uuid counter after the call. storageOk is the
\* store's answer to the upsert.
SyncEntities(table, uuid, userId, elems, now, ref, storageOk) ==
    LET rows == RowsOf(elems, uuid, userId, now, ref)
        used == uuid + MintedUpTo(elems, Len(elems))
    IN  IF elems = <<>>
        THEN [success |-> TRUE, count |-> 0, data |-> <<>>, table |-> table, uuid |-> uuid]
        ELSE IF storageOk /\ UpsertAccepted(rows)
        THEN [success |-> TRUE, count |-> Len(elems), data |-> MappingsOf(elems, uuid),
              table |-> Upserted(table, rows), uuid |-> used]
        ELSE [success |-> FALSE, count |-> 0, data |-> <<>>, table |-> table, uuid |-> used]

\* A handler that gives up after the first failed type: the variant under
\* which per-type isolation is expected to break.
TypeAttemptedUnlessFailed(elems, errors) == elems # <<>> /\ errors = <<>>

\* if (workoutTemplates && workoutTemplates.length > 0) { try { ... } }: a
\* type is attempted when the request carries elements of it, whatever the
\* errors collected so far.
TypeAttempted(elems, errors) == elems # <<>>

\* templateIdMap.get(i.templateId): every instance of the model refers to
\* template "t1".
TemplateRef(templateMappings) ==
    LET hits == {k \in DOMAIN templateMappings : templateMappings[k].localId = "t1"}
    IN  IF hits = {} THEN 0
        ELSE templateMappings[CHOOSE k \in hits : \A j \in hits : j <= k].id

\* updateSyncStatus: upsert of the account's sync_status row on user_id.
LedgerRow(userId, now, status, nT, nI, nL) ==
    [user_id |-> userId, last_sync_time |-> now, synced_templates |-> nT,
     synced_instances |-> nI, synced_logs |-> nL, status |-> status]
updateSyncStatus(ledger, row, storageOk) ==
    IF storageOk THEN {l \in ledger : l.user_id # row.user_id} \cup {row} ELSE ledger

\* router.post('/sync'): the handler from the request body to the response,
\* with the backing store after it. resolveOk, failing (the types whose
\* upsert the store rejects) and ledgerOk are the store's answers.
PostSync(s0, body, resolveOk, failing, ledgerOk) ==
    IF body.userId.kind = "missing"
    THEN [server |-> s0, status |-> 400, success |-> FALSE, data |-> <<>>, errors |-> <<>>,
          attempted |-> {}]
    ELSE IF ~resolveOk
    THEN [server |-> s0, status |-> 500, success |-> FALSE, data |-> <<>>, errors |-> <<>>,
          attempted |-> {}]
    ELSE
    LET now == s0.now
        res == ResolveUserId(s0, body.userId)
        s1  == res.server
        uid == res.id
        doT == TypeAttempted(body.workoutTemplates, <<>>)
        rT  == SyncEntities(s1.templates, s1.uuid, uid,
                            IF doT THEN body.workoutTemplates ELSE <<>>, now, 0,
                            "template" \notin failing)
        eT  == IF rT.success THEN <<>> ELSE <<"Templates">>
        doI == TypeAttempted(body.workoutInstances, eT)
        rI  == SyncEntities(s1.instances, rT.uuid, uid,
                            IF doI THEN body.workoutInstances ELSE <<>>, now,
                            TemplateRef(rT.data), "instance" \notin failing)
        eI  == IF rI.success THEN eT ELSE Append(eT, "Instances")
        doL == TypeAttempted(body.exerciseLogs, eI)
        rL  == SyncEntities(s1.logs, rI.uuid, uid,
                            IF doL THEN body.exerciseLogs ELSE <<>>, now, 0,
                            "log" \notin failing)
        errors == IF rL.success THEN eI ELSE Append(eI, "Logs")
        hasErrors == errors # <<>>
        ledger == updateSyncStatus(s1.ledger,
                      LedgerRow(uid, now, IF hasErrors THEN "error" ELSE "success",
                                rT.count, rI.count, rL.count), ledgerOk)
    IN  [server |-> [s1 EXCEPT !.templates = rT.table, !.instances = rI.table,
                               !.logs = rL.table, !.uuid = rL.uuid, !.ledger = ledger],
         status |-> 200, success |-> ~hasErrors,
         data |-> [workoutTemplates |-> rT.data, workoutInstances |-> rI.data,
                   exerciseLogs |-> rL.data],
         errors |-> errors,
         attempted |-> {t \in DataTypes :
                          \/ t = "template" /\ doT
                          \/ t = "instance" /\ doI
                          \/ t = "log" /\ doL}]

(* ======================= the client with its server ==================== *)
IdleRun == [pending |-> <<>>, bi |-> 0, synced |-> <<>>]
NoNet == [state |-> "none", payload |-> <<>>, included |-> {}, resp |-> <<>>]
EmptyServer ==
    [users |-> {}, templates |-> {}, instances |-> {}, logs |-> {}, ledger |-> {},
     uuid |-> 0, now |-> 0]
NoCall == [op |-> "none"]
NoHist ==
    [confirmed |-> {}, sent |-> [r \in RecordIds |-> 0],
     lastMapped |-> [r \in RecordIds |-> NoCloudId],
     prevIds |-> [r \in RecordIds |-> {}], curIds |-> [r \in RecordIds |-> {}],
     outcomes |-> <<>>]

\* The state after construction and configure(), or after two further calls
\* of syncNow() whose getPendingItems() rejected (see GetPendingFails).
Init ==
    /\ config \in [batchSize : BatchSizes]
    /\ online \in BOOLEAN
    /\ db = [r \in RecordIds |-> NoRecord]
    /\ syncQueue = <<>>
    /\ queueCount = 0
    /\ hasPendingChanges = FALSE
    /\ consecutiveFailures \in {0, maxConsecutiveFailures - 1}
    /\ syncError = IF consecutiveFailures = 0 THEN "" ELSE "error"
    /\ queueSyncError = syncError
    /\ queueLastSyncTime = 0
    /\ isSyncing = FALSE
    /\ lastSyncTime = 0
    /\ pc = [c \in Callers |-> "idle"]
    /\ run = [c \in Callers |-> IdleRun]
    /\ net = [c \in Callers |-> NoNet]
    /\ runNo = 0
    /\ server = EmptyServer
    /\ hist = NoHist
    /\ call = NoCall
    /\ resolving = NotResolving
    /\ waiting = NotWaiting

(* ----------------------------- environment ----------------------------- *)
\* The debounced subscription publishing a new isOnline value.
SetOnline ==
    /\ online' = ~online
    /\ UNCHANGED <<call, resolving, waiting, config, db, syncQueue, queueCount, hasPendingChanges, queueSyncError,
                   queueLastSyncTime, isSyncing, consecutiveFailures, lastSyncTime,
                   syncError, pc, run, net, runNo, server, hist>>

\* addToQueue(dataType, operation, recordId), updateQueueStatus() included.
AddToQueue(rid, operation) ==
    /\ Len(syncQueue) < MaxQueue
    /\ syncQueue' = Append(syncQueue, NewItem(Len(syncQueue) + 1, TypeOf(rid), operation, rid))
    /\ queueCount' = QueueCountOf(syncQueue')
    /\ hasPendingChanges' = HasPendingOf(syncQueue')

\* A component creating a record: the store's add..., then
\* addToQueue(type, 'create', id).
CreateRecord ==
    \E rid \in RecordIds :
        /\ ~db[rid].exists
        /\ db' = addRecord(db, rid, "a", NoCloudId, runNo)
        /\ AddToQueue(rid, "create")
        /\ UNCHANGED <<call, resolving, waiting, config, online, queueSyncError, queueLastSyncTime, isSyncing,
                       consecutiveFailures, lastSyncTime, syncError, pc, run, net, runNo,
                       server, hist>>

\* A component changing a template or an instance: the store's update...,
\* then addToQueue(type, 'update', id).
UpdateRecord ==
    \E rid \in RecordIds, content \in Contents :
        /\ db[rid].exists
        /\ content # db[rid].content
        /\ \/ /\ TypeOf(rid) = "template"
              /\ db' = updateWorkoutTemplate(db, [db[rid] EXCEPT !.content = content], rid, runNo)
           \/ /\ TypeOf(rid) = "instance"
              /\ db' = updateWorkoutInstance(db, [db[rid] EXCEPT !.content = content], rid)
        /\ AddToQueue(rid, "update")
        /\ UNCHANGED <<call, resolving, waiting, config, online, queueSyncError, queueLastSyncTime, isSyncing,
                       consecutiveFailures, lastSyncTime, syncError, pc, run, net, runNo,
                       server, hist>>

\* A component deleting a template: deleteWorkoutTemplate(id) clears isActive
\* and keeps the row; then addToQueue('template', 'delete', id).
DeleteTemplate ==
    \E rid \in RecordIds :
        /\ TypeOf(rid) = "template"
        /\ db[rid].exists
        /\ AddToQueue(rid, "delete")
        /\ UNCHANGED <<call, resolving, waiting, config, online, db, queueSyncError, queueLastSyncTime, isSyncing,
                       consecutiveFailures, lastSyncTime, syncError, pc, run, net, runNo,
                       server, hist>>

\* AppComponent.onImport(): a template of the imported file that the store
\* does not hold is added as it is, its cloudId included; nothing is queued.
ImportTemplate ==
    \E rid \in RecordIds :
        /\ TypeOf(rid) = "template"
        /\ ~db[rid].exists
        /\ db' = addRecord(db, rid, "a", ImportedCloudId, runNo)
        /\ UNCHANGED <<call, resolving, waiting, config, online, syncQueue, queueCount, hasPendingChanges,
                       queueSyncError, queueLastSyncTime, isSyncing, consecutiveFailures,
                       lastSyncTime, syncError, pc, run, net, runNo, server, hist>>

(* ------------------------------ syncNow() ------------------------------ *)
queueVars == <<syncQueue, queueCount, hasPendingChanges>>

\* A syncNow() without its first guard: the variant under which the
\* single-flight property is expected to break.
GuardAbsent == FALSE

\* if (this.isSyncing()) { return false; }
AlreadySyncing == isSyncing

\* A syncNow() without its failure-count guard: the variant under which
\* a run is expected to start in spite of three consecutive failures.
NeverExhausted == FALSE

\* this.consecutiveFailures >= this.maxConsecutiveFailures
FailuresExhausted == consecutiveFailures >= maxConsecutiveFailures

\* Where a call that returns leaves its call site: onManualSync awaits the
\* promise and sees the value; the effect drops the promise.
Returned(c, value) ==
    IF c = "manual" THEN (IF value THEN "retTrue" ELSE "retFalse") ELSE "idle"

\* A run ending turns what it sent into history, and the ids it was given
\* when it completed (its entries marked synced).
HistAtRunEnd(completed) ==
    [hist EXCEPT !.sent = [r \in RecordIds |-> 0],
                 !.prevIds = [r \in RecordIds |->
                                 IF completed THEN hist.prevIds[r] \cup hist.curIds[r]
                                 ELSE hist.prevIds[r]],
                 !.curIds = [r \in RecordIds |-> {}],
                 !.outcomes = <<>>]

\* syncNow() from its call to its first await: the three refusals, or the
\* guard flag set and the run begun.
SyncNowCall(c) ==
    /\ pc[c] = "idle"
    /\ \/ /\ AlreadySyncing
          /\ pc' = [pc EXCEPT ![c] = Returned(c, FALSE)]
          /\ UNCHANGED <<isSyncing, syncError, run, runNo, hist>>
       \/ /\ ~AlreadySyncing
          /\ ~online
          /\ pc' = [pc EXCEPT ![c] = Returned(c, FALSE)]
          /\ UNCHANGED <<isSyncing, syncError, run, runNo, hist>>
       \/ /\ ~AlreadySyncing
          /\ online
          /\ FailuresExhausted
          /\ syncError' = "stopped"
          /\ pc' = [pc EXCEPT ![c] = Returned(c, FALSE)]
          /\ UNCHANGED <<isSyncing, run, runNo, hist>>
       \/ /\ ~AlreadySyncing
          /\ online
          /\ ~FailuresExhausted
          /\ runNo < MaxRuns
          /\ isSyncing' = TRUE
          /\ syncError' = ""
          /\ runNo' = runNo + 1
          /\ pc' = [pc EXCEPT ![c] = "getPending"]
          /\ UNCHANGED <<run, hist>>
    /\ UNCHANGED <<call, resolving, waiting, config, online, db, queueVars, queueSyncError, queueLastSyncTime,
                   consecutiveFailures, lastSyncTime, net, server>>

\* initializeAutoSync's effect: isOnline && hasPendingChanges && !isSyncing,
\* and the 2 s debounce letting it through.
AutoSyncEffect ==
    /\ online
    /\ hasPendingChanges
    /\ ~isSyncing
    /\ SyncNowCall("auto")

\* onManualSync(), or any other direct call of syncNow().
ManualSync == SyncNowCall("manual")

\* The promise of a finished call resolving at its caller.
Return(c) ==
    /\ pc[c] \in {"retTrue", "retFalse"}
    /\ pc' = [pc EXCEPT ![c] = "idle"]
    /\ UNCHANGED <<call, resolving, waiting, config, online, db, queueVars, queueSyncError, queueLastSyncTime, isSyncing,
                   consecutiveFailures, lastSyncTime, syncError, run, net, runNo, server, hist>>

\* await getPendingItems(): no pending item ends the run with success; else
\* the items are cut into batches and the loop begins.
GetPending(c) ==
    /\ pc[c] = "getPending"
    /\ LET pending == getPendingItems(syncQueue)
       IN  IF Len(pending) = 0
           THEN /\ lastSyncTime' = runNo
                /\ consecutiveFailures' = 0
                /\ isSyncing' = FALSE
                /\ pc' = [pc EXCEPT ![c] = Returned(c, TRUE)]
                /\ UNCHANGED run
           ELSE /\ run' = [run EXCEPT ![c] = [pending |-> pending, bi |-> 1, synced |-> <<>>]]
                /\ pc' = [pc EXCEPT ![c] = "batch"]
                /\ UNCHANGED <<lastSyncTime, consecutiveFailures, isSyncing>>
    /\ UNCHANGED <<call, resolving, waiting, config, online, db, queueVars, queueSyncError, queueLastSyncTime, syncError,
                   net, runNo, server, hist>>

\* getPendingItems() rejecting (a storage error): the catch and finally of
\* syncNow().
GetPendingFails(c) ==
    /\ pc[c] = "getPending"
    /\ consecutiveFailures' = consecutiveFailures + 1
    /\ syncError' = "error"
    /\ queueSyncError' = "error"
    /\ isSyncing' = FALSE
    /\ pc' = [pc EXCEPT ![c] = Returned(c, FALSE)]
    /\ UNCHANGED <<call, resolving, waiting, config, online, db, queueVars, queueLastSyncTime, lastSyncTime, run, net,
                   runNo, server, hist>>

(* ------------------------- the batches of a run ------------------------ *)
\* A loop that leaves at its first failed batch: the variant under which
\* batch isolation is expected to break.
AfterBatchAborting(bi, n, batchSuccess) ==
    IF batchSuccess /\ bi < n THEN "batch" ELSE "finish"

\* for (let i = 0; i < batches.length; i++): after batch bi of n, whatever
\* its batchSuccess, the loop goes on to the next batch or ends.
AfterBatch(bi, n, batchSuccess) == IF bi < n THEN "batch" ELSE "finish"

\* this.config.batchSize || 100
EffectiveBatchSize == IF config.batchSize = 0 THEN DefaultBatchSize ELSE config.batchSize

CurrentBatch(c) == BatchAt(run[c].pending, EffectiveBatchSize, run[c].bi)
IdsOf(items) == [k \in 1..Len(items) |-> items[k].id]

\* The types for which a response lists rows written.
WrittenTypes(resp) ==
    IF resp.status # 200 THEN {}
    ELSE {t \in DataTypes :
            \/ t = "template" /\ resp.data.workoutTemplates # <<>>
            \/ t = "instance" /\ resp.data.workoutInstances # <<>>
            \/ t = "log" /\ resp.data.exerciseLogs # <<>>}

\* syncBatch() returned batchSuccess: syncedQueueIds.push(...batchQueueIds)
\* when it is true, then the next turn of the loop.
BatchDone(c, batchSuccess, posted, written, h) ==
    /\ run' = [run EXCEPT ![c].bi = @ + 1,
                          ![c].synced = IF batchSuccess
                                        THEN @ \o IdsOf(CurrentBatch(c)) ELSE @]
    /\ pc' = [pc EXCEPT ![c] = AfterBatch(run[c].bi,
                                          NumBatches(run[c].pending, EffectiveBatchSize),
                                          batchSuccess)]
    /\ hist' = [h EXCEPT !.outcomes =
                    Append(@, [ok |-> batchSuccess, posted |-> posted, written |-> written])]

\* The number of elements a payload carries for record rid.
ElementCount(payload, rid) ==
    Cardinality({k \in DOMAIN payload.workoutTemplates : payload.workoutTemplates[k].id = rid})
    + Cardinality({k \in DOMAIN payload.workoutInstances : payload.workoutInstances[k].id = rid})
    + Cardinality({k \in DOMAIN payload.exerciseLogs : payload.exerciseLogs[k].id = rid})

\* syncBatch(batch) up to its http.post: the payload is built from the store
\* as it is now; with nothing to send the batch counts as synced.
SyncBatchBegin(c) ==
    /\ pc[c] = "batch"
    /\ LET batch == CurrentBatch(c)
           payload == buildSyncPayload(batch, db)
           included == {batch[k].id : k \in {j \in DOMAIN batch : Sendable(db, batch[j])}}
       IN  IF NoDataToSend(payload)
           THEN /\ BatchDone(c, TRUE, FALSE, {}, hist)
                /\ UNCHANGED net
           ELSE /\ net' = [net EXCEPT ![c] =
                            [state |-> "req",
                             payload |-> [userId |-> ClientUserId,
                                          workoutTemplates |-> payload.workoutTemplates,
                                          workoutInstances |-> payload.workoutInstances,
                                          exerciseLogs |-> payload.exerciseLogs],
                             included |-> included, resp |-> <<>>]]
                /\ pc' = [pc EXCEPT ![c] = "post"]
                /\ hist' = [hist EXCEPT !.sent =
                                [r \in RecordIds |-> @[r] + ElementCount(payload, r)]]
                /\ UNCHANGED run
    /\ UNCHANGED <<call, resolving, waiting, config, online, db, queueVars, queueSyncError, queueLastSyncTime, isSyncing,
                   consecutiveFailures, lastSyncTime, syncError, runNo, server>>

\* The server handling the request in flight and answering it.
ServerHandle(c) ==
    /\ net[c].state = "req"
    /\ \E resolveOk \in BOOLEAN, failing \in SUBSET DataTypes :
          LET r == PostSync(server, net[c].payload, resolveOk, failing, TRUE)
          IN  /\ server' = r.server
              /\ net' = [net EXCEPT ![c].state = "resp",
                                    ![c].resp = [status |-> r.status, success |-> r.success,
                                                 data |-> r.data, errors |-> r.errors]]
    /\ UNCHANGED <<clientVarsButNet, hist, call, resolving, waiting>>

\* What a response's data maps record rid to: every id, and the last one.
MappingsFor(data, rid) ==
    LET all == data.workoutTemplates \o data.workoutInstances \o data.exerciseLogs
    IN  SelectSeq(all, LAMBDA m : m.localId = rid)
MappedIds(data, rid) == {m.id : m \in Range(MappingsFor(data, rid))}
LastMappedId(data, rid, before) ==
    LET ms == MappingsFor(data, rid)
    IN  IF ms = <<>> THEN before ELSE ms[Len(ms)].id

\* syncBatch() after its http.post resolved with the server's answer: on
\* response.success the mappings are applied to the store and the batch is
\* synced; any other answer (success false, or an HTTP error turned into
\* { success: false } by catchError) fails the batch.
HttpResponse(c) ==
    /\ pc[c] = "post"
    /\ net[c].state = "resp"
    /\ LET resp == net[c].resp
       IN  IF resp.status = 200 /\ resp.success
           THEN /\ db' = updateLocalWithCloudIds(db, resp.data, runNo)
                /\ BatchDone(c, TRUE, TRUE, WrittenTypes(resp),
                      [hist EXCEPT
                         !.confirmed = @ \cup net[c].included,
                         !.curIds = [r \in RecordIds |-> @[r] \cup MappedIds(resp.data, r)],
                         !.lastMapped = [r \in RecordIds |->
                             IF db[r].exists THEN LastMappedId(resp.data, r, @[r])
                             ELSE @[r]]])
           ELSE /\ BatchDone(c, FALSE, TRUE, WrittenTypes(resp), hist)
                /\ UNCHANGED db
    /\ net' = [net EXCEPT ![c] = NoNet]
    /\ UNCHANGED <<call, resolving, waiting, config, online, queueVars, queueSyncError, queueLastSyncTime, isSyncing,
                   consecutiveFailures, lastSyncTime, syncError, runNo, server>>

\* The http.post without its timeout(): it fails only on a network error,
\* which takes the connection being down. The variant under which a run is
\* expected to hang on a request that is never answered.
HttpFailureWithoutTimeout(c) ==
    /\ ~online
    /\ pc[c] = "post"
    /\ net[c].state \in {"req", "resp"}
    /\ BatchDone(c, FALSE, TRUE, {}, hist)
    /\ net' = [net EXCEPT ![c] = NoNet]
    /\ UNCHANGED <<call, resolving, waiting, config, online, db, queueVars, queueSyncError, queueLastSyncTime, isSyncing,
                   consecutiveFailures, lastSyncTime, syncError, runNo, server>>

\* The http.post failing without an answer: a network error, or the 30 s
\* timeout, whether or not the server handled the request.
HttpFailure(c) ==
    /\ pc[c] = "post"
    /\ net[c].state \in {"req", "resp"}
    /\ BatchDone(c, FALSE, TRUE, {}, hist)
    /\ net' = [net EXCEPT ![c] = NoNet]
    /\ UNCHANGED <<call, resolving, waiting, config, online, db, queueVars, queueSyncError, queueLastSyncTime, isSyncing,
                   consecutiveFailures, lastSyncTime, syncError, runNo, server>>

\* The end of syncNow() after the loop: markMultipleAsSynced (with its
\* updateQueueStatus), the failure counter, lastSyncTime, the queue's
\* updateSyncStatus(allSuccess), the return value and the finally.
Finish(c) ==
    /\ pc[c] = "finish"
    /\ LET syncedQueueIds == run[c].synced
           failureCount == Len(run[c].pending) - Len(syncedQueueIds)
           allSuccess == failureCount = 0
       IN  /\ IF Len(syncedQueueIds) > 0
              THEN /\ syncQueue' = MarkedSynced(syncQueue, Range(syncedQueueIds))
                   /\ queueCount' = QueueCountOf(syncQueue')
                   /\ hasPendingChanges' = HasPendingOf(syncQueue')
              ELSE UNCHANGED queueVars
           /\ consecutiveFailures' = IF allSuccess THEN 0 ELSE consecutiveFailures + 1
           /\ lastSyncTime' = runNo
           /\ IF allSuccess
              THEN queueLastSyncTime' = runNo /\ queueSyncError' = ""
              ELSE queueSyncError' = "Unknown sync error" /\ UNCHANGED queueLastSyncTime
           /\ pc' = [pc EXCEPT ![c] = Returned(c, allSuccess)]
    /\ isSyncing' = FALSE
    /\ run' = [run EXCEPT ![c] = IdleRun]
    /\ hist' = HistAtRunEnd(TRUE)
    /\ UNCHANGED <<call, resolving, waiting, config, online, db, syncError, net, runNo, server>>

\* markMultipleAsSynced rejecting after k of its updates (a storage error):
\* updateQueueStatus is not reached; the catch and finally of syncNow().
FinishFails(c) ==
    /\ pc[c] = "finish"
    /\ Len(run[c].synced) > 0
    /\ \E k \in 0..(Len(run[c].synced) - 1) :
          syncQueue' = MarkedSynced(syncQueue, Range(SubSeq(run[c].synced, 1, k)))
    /\ consecutiveFailures' = consecutiveFailures + 1
    /\ syncError' = "error"
    /\ queueSyncError' = "error"
    /\ isSyncing' = FALSE
    /\ pc' = [pc EXCEPT ![c] = Returned(c, FALSE)]
    /\ run' = [run EXCEPT ![c] = IdleRun]
    /\ hist' = HistAtRunEnd(FALSE)
    /\ UNCHANGED <<call, resolving, waiting, config, online, db, queueCount, hasPendingChanges, queueLastSyncTime,
                   lastSyncTime, net, runNo, server>>

Next ==
    \/ SetOnline
    \/ CreateRecord
    \/ UpdateRecord
    \/ DeleteTemplate
    \/ ImportTemplate
    \/ AutoSyncEffect
    \/ ManualSync
    \/ \E c \in Callers : Return(c)
    \/ \E c \in Callers : GetPending(c)
    \/ \E c \in Callers : GetPendingFails(c)
    \/ \E c \in Callers : SyncBatchBegin(c)
    \/ \E c \in Callers : ServerHandle(c)
    \/ \E c \in Callers : HttpResponse(c)
    \/ \E c \in Callers : HttpFailure(c)
    \/ \E c \in Callers : Finish(c)
    \/ \E c \in Callers : FinishFails(c)

Spec == Init /\ [][Next]_vars

(* ============== the client with its server, runs scheduled ============= *)
\* What a run of caller c does next: every await of syncNow() and syncBatch()
\* settles (a storage promise resolves or rejects, the http.post is answered,
\* fails, or is cut by timeout(syncTimeout || 30000)), and the code after it
\* runs.
RunStep(c) ==
    \/ GetPending(c)
    \/ GetPendingFails(c)
    \/ SyncBatchBegin(c)
    \/ HttpResponse(c)
    \/ HttpFailure(c)
    \/ Finish(c)
    \/ FinishFails(c)

\* The user's creations and deletions, connectivity changes, both triggers
\* of syncNow() and every step of a run; the server may or may not answer.
NextGuard ==
    \/ SetOnline
    \/ CreateRecord
    \/ DeleteTemplate
    \/ AutoSyncEffect
    \/ ManualSync
    \/ \E c \in Callers : Return(c)
    \/ \E c \in Callers : GetPending(c)
    \/ \E c \in Callers : GetPendingFails(c)
    \/ \E c \in Callers : SyncBatchBegin(c)
    \/ \E c \in Callers : ServerHandle(c)
    \/ \E c \in Callers : HttpResponse(c)
    \/ \E c \in Callers : HttpFailure(c)
    \/ \E c \in Callers : Finish(c)
    \/ \E c \in Callers : FinishFails(c)

SpecGuard == Init /\ [][NextGuard]_vars /\ \A c \in Callers : WF_vars(RunStep(c))

(* ================== the client with syncType() calls =================== *)
\* A call site of syncType(), beside the two of syncNow().
TypeCaller == "type"
AllCallers == Callers \cup {TypeCaller}

\* getPendingItemsByType(): the pending items of one dataType, in queue order.
PendingItemsOfType(queue, t) ==
    SelectSeq(getPendingItems(queue), LAMBDA item : item.dataType = t)

\* syncType(type) from its call to the http.post of its syncBatch(items):
\* no check of isSyncing, of connectivity or of the failure counter; with no
\* pending item of the type, or nothing to send for them, it returns true.
\* The explored behaviours count its calls with the runs of syncNow().
SyncTypeBegin(t) ==
    /\ pc[TypeCaller] = "idle"
    /\ runNo < MaxRuns
    /\ runNo' = runNo + 1
    /\ LET items == PendingItemsOfType(syncQueue, t)
           payload == buildSyncPayload(items, db)
           included == {items[k].id : k \in {j \in DOMAIN items : Sendable(db, items[j])}}
       IN  IF items = <<>> \/ NoDataToSend(payload)
           THEN UNCHANGED <<pc, run, net>>
           ELSE /\ net' = [net EXCEPT ![TypeCaller] =
                            [state |-> "req",
                             payload |-> [userId |-> ClientUserId,
                                          workoutTemplates |-> payload.workoutTemplates,
                                          workoutInstances |-> payload.workoutInstances,
                                          exerciseLogs |-> payload.exerciseLogs],
                             included |-> included, resp |-> <<>>]]
                /\ run' = [run EXCEPT ![TypeCaller] =
                            [pending |-> items, bi |-> 1, synced |-> <<>>]]
                /\ pc' = [pc EXCEPT ![TypeCaller] = "post"]
    /\ UNCHANGED <<call, resolving, waiting, config, online, db, queueVars, queueSyncError, queueLastSyncTime, isSyncing,
                   consecutiveFailures, lastSyncTime, syncError, server, hist>>

\* syncBatch(items) of syncType() after its http.post settled, with an
\* answer or without: on response.success the mappings are applied to the
\* store; the result goes back to the caller and the queue is not touched.
SyncTypeEnd ==
    /\ pc[TypeCaller] = "post"
    /\ \/ /\ net[TypeCaller].state = "resp"
          /\ LET resp == net[TypeCaller].resp
             IN  db' = IF resp.status = 200 /\ resp.success
                       THEN updateLocalWithCloudIds(db, resp.data, runNo)
                       ELSE db
       \/ /\ net[TypeCaller].state \in {"req", "resp"}
          /\ UNCHANGED db
    /\ net' = [net EXCEPT ![TypeCaller] = NoNet]
    /\ run' = [run EXCEPT ![TypeCaller] = IdleRun]
    /\ pc' = [pc EXCEPT ![TypeCaller] = "idle"]
    /\ UNCHANGED <<call, resolving, waiting, config, online, queueVars, queueSyncError, queueLastSyncTime, isSyncing,
                   consecutiveFailures, lastSyncTime, syncError, runNo, server, hist>>

InitType ==
    /\ config \in [batchSize : BatchSizes]
    /\ online \in BOOLEAN
    /\ db = [r \in RecordIds |-> NoRecord]
    /\ syncQueue = <<>>
    /\ queueCount = 0
    /\ hasPendingChanges = FALSE
    /\ consecutiveFailures = 0
    /\ syncError = ""
    /\ queueSyncError = ""
    /\ queueLastSyncTime = 0
    /\ isSyncing = FALSE
    /\ lastSyncTime = 0
    /\ pc = [c \in AllCallers |-> "idle"]
    /\ run = [c \in AllCallers |-> IdleRun]
    /\ net = [c \in AllCallers |-> NoNet]
    /\ runNo = 0
    /\ server = EmptyServer
    /\ hist = NoHist
    /\ call = NoCall
    /\ resolving = NotResolving
    /\ waiting = NotWaiting

NextType ==
    \/ SetOnline
    \/ CreateRecord
    \/ ManualSync
    \/ Return("manual")
    \/ GetPending("manual")
    \/ SyncBatchBegin("manual")
    \/ \E c \in AllCallers : ServerHandle(c)
    \/ HttpResponse("manual")
    \/ HttpFailure("manual")
    \/ Finish("manual")
    \/ \E t \in DataTypes : SyncTypeBegin(t)
    \/ SyncTypeEnd

SpecType == InitType /\ [][NextType]_vars

(* ================ the client with a server that accepts ================ *)
\* The page being reloaded while no run is in progress: the services are
\* constructed again, so every signal and the failure counter are back at
\* their initial values. initializeQueue() opens the Dexie table and does
\* not call updateQueueStatus(); the two IndexedDB databases (the sync
\* queue and the store) keep their rows.
Restart ==
    /\ \A c \in Callers : pc[c] = "idle"
    /\ queueCount' = 0
    /\ hasPendingChanges' = FALSE
    /\ queueSyncError' = ""
    /\ queueLastSyncTime' = 0
    /\ isSyncing' = FALSE
    /\ consecutiveFailures' = 0
    /\ lastSyncTime' = 0
    /\ syncError' = ""
    /\ call' = [op |-> "restart"]
    /\ UNCHANGED <<resolving, waiting, config, online, db, syncQueue, pc, run, net, runNo, server, hist>>

\* Connectivity being restored; in this specification it then stays up.
ComeOnline ==
    /\ ~online
    /\ online' = TRUE
    /\ UNCHANGED <<call, resolving, waiting, config, db, syncQueue, queueCount, hasPendingChanges, queueSyncError,
                   queueLastSyncTime, isSyncing, consecutiveFailures, lastSyncTime,
                   syncError, pc, run, net, runNo, server, hist>>

\* The server handling the request in flight with its storage working:
\* the user is resolved, no upsert is made to fail and the ledger is written.
ServerAccepts(c) ==
    /\ net[c].state = "req"
    /\ LET r == PostSync(server, net[c].payload, TRUE, {}, TRUE)
       IN  /\ server' = r.server
           /\ net' = [net EXCEPT ![c].state = "resp",
                                 ![c].resp = [status |-> r.status, success |-> r.success,
                                              data |-> r.data, errors |-> r.errors]]
    /\ UNCHANGED <<clientVarsButNet, hist, call, resolving, waiting>>

\* The device starts offline; syncNow() is called by the effect only.
InitLive == Init /\ ~online

NextLive ==
    \/ CreateRecord
    \/ UpdateRecord
    \/ DeleteTemplate
    \/ Restart
    \/ ComeOnline
    \/ AutoSyncEffect
    \/ GetPending("auto")
    \/ SyncBatchBegin("auto")
    \/ ServerAccepts("auto")
    \/ HttpResponse("auto")
    \/ Finish("auto")

\* Weak fairness of the automatic trigger and of every step of the run it
\* starts, the network's included; the user's actions, the reload and the
\* return of connectivity are not forced.
SpecLive ==
    /\ InitLive
    /\ [][NextLive]_vars
    /\ WF_vars(AutoSyncEffect)
    /\ WF_vars(GetPending("auto"))
    /\ WF_vars(SyncBatchBegin("auto"))
    /\ WF_vars(ServerAccepts("auto"))
    /\ WF_vars(HttpResponse("auto"))
    /\ WF_vars(Finish("auto"))

(* ===================== the server on its own =========================== *)
\* Requests handled in one explored behaviour of the server.
MaxPosts == 2
\* Readings the server's clock goes through.
MaxClock == 1

RidOf(dataType) ==
    CASE dataType = "template" -> "t1" [] dataType = "instance" -> "i1" [] OTHER -> "l1"
TableOf(s, dataType) ==
    CASE dataType = "template" -> s.templates [] dataType = "instance" -> s.instances
      [] OTHER -> s.logs
ElementsIn(body, dataType) ==
    CASE dataType = "template" -> body.workoutTemplates
      [] dataType = "instance" -> body.workoutInstances
      [] OTHER -> body.exerciseLogs
MappingsIn(data, dataType) ==
    CASE dataType = "template" -> data.workoutTemplates
      [] dataType = "instance" -> data.workoutInstances
      [] OTHER -> data.exerciseLogs

\* The arrays a request may carry for one type: none, or the type's record
\* without cloudId or with the cloudId the client holds for it.
ElementSeqs(dataType) ==
    {<<>>} \cup
    {<<[id |-> RidOf(dataType), cloudId |-> cid, content |-> "a",
        hasTs |-> HasTimestamps(dataType)]>> : cid \in {NoCloudId, ImportedCloudId}}

MissingUserId == [kind |-> "missing", value |-> ""]
Bodies ==
    [userId : {ClientUserId, MissingUserId},
     workoutTemplates : ElementSeqs("template"),
     workoutInstances : ElementSeqs("instance"),
     exerciseLogs : ElementSeqs("log")]
TypesIn(body) == {t \in DataTypes : ElementsIn(body, t) # <<>>}

ClientAtRest ==
    /\ config = [batchSize |-> DefaultBatchSize]
    /\ online = TRUE
    /\ db = [r \in RecordIds |-> NoRecord]
    /\ syncQueue = <<>>
    /\ queueCount = 0
    /\ hasPendingChanges = FALSE
    /\ consecutiveFailures = 0
    /\ syncError = ""
    /\ queueSyncError = ""
    /\ queueLastSyncTime = 0
    /\ isSyncing = FALSE
    /\ lastSyncTime = 0
    /\ pc = [c \in Callers |-> "idle"]
    /\ run = [c \in Callers |-> IdleRun]
    /\ net = [c \in Callers |-> NoNet]
    /\ runNo = 0
    /\ hist = NoHist

NoPost == [op |-> "none", n |-> 0, body |-> <<>>, success |-> FALSE]

InitServer ==
    /\ ClientAtRest
    /\ server = EmptyServer
    /\ call = NoPost
    /\ resolving = NotResolving
    /\ waiting = NotWaiting

\* POST /sync handled for any request body, the store answering as it may
\* (its answer is drawn for the types the request carries), at the reading
\* now the clock has reached since the request before; the first request
\* is handled at reading 0.
PostRequest ==
    /\ call.n < MaxPosts
    /\ \E body \in Bodies, resolveOk \in BOOLEAN, ledgerOk \in BOOLEAN,
          now \in server.now..MaxClock :
       \E failing \in SUBSET TypesIn(body) :
          LET r == PostSync([server EXCEPT !.now = now], body, resolveOk, failing, ledgerOk)
          IN  /\ call.n = 0 => now = server.now
              /\ body.userId.kind = "missing" => resolveOk /\ ledgerOk /\ failing = {}
              /\ ~resolveOk => ledgerOk /\ failing = {}
              /\ server' = r.server
              /\ call' = [op |-> "post", n |-> call.n + 1, body |-> body,
                          status |-> r.status, success |-> r.success, errors |-> r.errors,
                          data |-> r.data, attempted |-> r.attempted, failing |-> failing,
                          before |-> server, prevBody |-> call.body,
                          prevSuccess |-> call.success, ledgerOk |-> ledgerOk]
    /\ UNCHANGED <<clientVars, hist, resolving, waiting>>

NextServer == PostRequest

SpecServer == InitServer /\ [][NextServer]_vars

(* ================= the store under returned mappings =================== *)
\* The records the store may hold when a response arrives: created locally
\* (no cloudId) or, a template, imported with a cloudId.
StoredRecords(rid) ==
    {NoRecord} \cup
    {[exists |-> TRUE, cloudId |-> cid, content |-> x, updatedAt |-> 0] :
        cid \in IF TypeOf(rid) = "template" THEN {NoCloudId, ImportedCloudId}
                ELSE {NoCloudId},
        x \in IF TypeOf(rid) = "log" THEN {"a"} ELSE Contents}

\* The mapping arrays a response may carry, whatever the server is.
MappingIds == {ImportedCloudId, 1, 2}
OneMapping(rid) == {<<[id |-> i, localId |-> rid]>> : i \in MappingIds}
TwoMappings(rid) == {m1 \o m2 : m1 \in OneMapping(rid), m2 \in OneMapping(rid)}
AnyResponseData ==
    [workoutTemplates : {<<>>} \cup OneMapping("t1") \cup TwoMappings("t1"),
     workoutInstances : {<<>>} \cup OneMapping("i1"),
     exerciseLogs : {<<>>} \cup OneMapping("l1")]

InitStore ==
    /\ ClientAtRest
    /\ server = EmptyServer
    /\ call = NoCall
    /\ resolving = NotResolving
    /\ waiting = NotWaiting

\* The store filled by the UI and by imports, before any response.
FillStore ==
    /\ call.op = "none"
    /\ \E rid \in RecordIds : \E rec \in StoredRecords(rid) :
          /\ ~db[rid].exists
          /\ rec.exists
          /\ db' = [db EXCEPT ![rid] = rec]
    /\ UNCHANGED <<call, resolving, waiting, config, online, syncQueue, queueCount, hasPendingChanges,
                   queueSyncError, queueLastSyncTime, isSyncing, consecutiveFailures,
                   lastSyncTime, syncError, pc, run, net, runNo, server, hist>>

\* updateLocalWithCloudIds(response.data) for any response data.
ApplyMappings ==
    /\ \E data \in AnyResponseData :
          /\ db' = updateLocalWithCloudIds(db, data, runNo)
          /\ call' = [op |-> "apply", data |-> data, before |-> db]
    /\ UNCHANGED <<resolving, waiting, config, online, syncQueue, queueCount, hasPendingChanges,
                   queueSyncError, queueLastSyncTime, isSyncing, consecutiveFailures,
                   lastSyncTime, syncError, pc, run, net, runNo, server, hist>>

NextStore == FillStore \/ ApplyMappings

SpecStore == InitStore /\ [][NextStore]_vars

(* ============== the account's read and delete endpoints ================ *)
\* Requests handled in one explored behaviour of these endpoints.
MaxRequests == 3

\* A second account's handle.
OtherUserId == [kind |-> "handle", value |-> "other@example.com"]
AccountIds == {ClientUserId, OtherUserId}

\* A string of a response: a uuid's text, any other text, or ''.
UuidText(u) == [uuid |-> u, text |-> ""]
Text(t) == [uuid |-> 0, text |-> t]
EmptyText == Text("")

\* transformTemplates / transformInstances / transformLogs, the two
\* identifiers: id: item.local_id || item.id, cloudId: item.id; no localId
\* is set (a field that is absent reads as '' in `t.localId || ''`).
Transformed(item) ==
    [id |-> IF item.local_id # "" THEN Text(item.local_id) ELSE UuidText(item.id),
     localId |-> EmptyText,
     cloudId |-> UuidText(item.id)]

\* .select('*').eq('user_id', userId) on one table.
RowsOfUser(table, userId) == {r \in table : r.user_id = userId}

\* getUserData and the route's map(t => ({ id: t.id, localId: t.localId ||
\* '' })): the elements of one type's list (their order is the store's).
Annotated(table, userId) ==
    {[id |-> Transformed(r).id, localId |-> Transformed(r).localId] :
        r \in RowsOfUser(table, userId)}

\* The four tables of deleteUserData, in its order, and the store after the
\* first n of its deletes for userId.
DeleteOrder == <<"templates", "instances", "logs", "ledger">>
DeletedUpTo(s, userId, n) ==
    [s EXCEPT !.templates = IF n >= 1 THEN {r \in @ : r.user_id # userId} ELSE @,
              !.instances = IF n >= 2 THEN {r \in @ : r.user_id # userId} ELSE @,
              !.logs      = IF n >= 3 THEN {r \in @ : r.user_id # userId} ELSE @,
              !.ledger    = IF n >= 4 THEN {r \in @ : r.user_id # userId} ELSE @]

NoRequest == [op |-> "none", n |-> 0]

InitAccount ==
    /\ ClientAtRest
    /\ server = EmptyServer
    /\ call = NoRequest
    /\ resolving = NotResolving
    /\ waiting = NotWaiting

\* POST /sync of either account, the store answering every statement.
AccountPost ==
    /\ call.n < MaxRequests
    /\ \E body \in Bodies, userId \in AccountIds :
          LET r == PostSync(server, [body EXCEPT !.userId = userId], TRUE, {}, TRUE)
          IN  /\ body.userId = ClientUserId
              /\ TypesIn(body) # {}
              /\ server' = r.server
              /\ call' = [op |-> "post", n |-> call.n + 1]
    /\ UNCHANGED <<clientVars, hist, resolving, waiting>>

\* router.get('/sync/:userId'): the account is resolved, its rows are read
\* and answered; resolveUserId or a select failing gives the 500 answer.
GetRequest ==
    /\ call.n < MaxRequests
    /\ \E userId \in AccountIds, resolveOk \in BOOLEAN, storageOk \in BOOLEAN :
          LET res == ResolveUserId(server, userId)
          IN  /\ ~resolveOk => storageOk
              /\ server' = IF resolveOk THEN res.server ELSE server
              /\ call' =
                    IF resolveOk /\ storageOk
                    THEN [op |-> "get", n |-> call.n + 1, status |-> 200, success |-> TRUE,
                          uid |-> res.id,
                          data |-> [workoutTemplates |-> Annotated(server.templates, res.id),
                                    workoutInstances |-> Annotated(server.instances, res.id),
                                    exerciseLogs |-> Annotated(server.logs, res.id)]]
                    ELSE [op |-> "get", n |-> call.n + 1, status |-> 500, success |-> FALSE,
                          uid |-> 0,
                          data |-> [workoutTemplates |-> {}, workoutInstances |-> {},
                                    exerciseLogs |-> {}]]
    /\ UNCHANGED <<clientVars, hist, resolving, waiting>>

\* getLastSyncTime(userId): the last_sync_time of the account's sync_status
\* row; no row, or the select failing, gives null.
getLastSyncTime(ledger, userId, storageOk) ==
    LET rows == {l \in ledger : l.user_id = userId}
    IN  IF storageOk /\ rows # {}
        THEN [never |-> FALSE, time |-> (CHOOSE l \in rows : TRUE).last_sync_time]
        ELSE [never |-> TRUE, time |-> 0]

\* router.get('/sync/:userId/status'): the account is resolved and its
\* last sync time is read and answered ('Never synced' for null);
\* resolveUserId failing gives the 500 answer.
StatusRequest ==
    /\ call.n < MaxRequests
    /\ \E userId \in AccountIds, resolveOk \in BOOLEAN, storageOk \in BOOLEAN :
          LET res == ResolveUserId(server, userId)
          IN  /\ ~resolveOk => storageOk
              /\ server' = IF resolveOk THEN res.server ELSE server
              /\ call' =
                    IF resolveOk
                    THEN [op |-> "status", n |-> call.n + 1, status |-> 200,
                          success |-> TRUE, uid |-> res.id,
                          lastSyncTime |-> getLastSyncTime(server.ledger, res.id, storageOk)]
                    ELSE [op |-> "status", n |-> call.n + 1, status |-> 500,
                          success |-> FALSE, uid |-> 0,
                          lastSyncTime |-> getLastSyncTime({}, 0, FALSE)]
    /\ UNCHANGED <<clientVars, hist, resolving, waiting>>

\* router.delete('/sync/:userId'): the account is resolved and
\* deleteUserData deletes from its four tables in turn; failAt is the
\* delete the store answers with an error (0: none), which ends the loop.
DeleteRequest ==
    /\ call.n < MaxRequests
    /\ \E userId \in AccountIds, resolveOk \in BOOLEAN, failAt \in 0..Len(DeleteOrder) :
          LET res == ResolveUserId(server, userId)
              done == IF failAt = 0 THEN Len(DeleteOrder) ELSE failAt - 1
          IN  /\ ~resolveOk => failAt = 0
              /\ server' = IF resolveOk THEN DeletedUpTo(res.server, res.id, done)
                            ELSE server
              /\ call' = [op |-> "delete", n |-> call.n + 1,
                          status |-> IF resolveOk /\ failAt = 0 THEN 200 ELSE 500,
                          success |-> resolveOk /\ failAt = 0,
                          uid |-> IF resolveOk THEN res.id ELSE 0,
                          before |-> server]
    /\ UNCHANGED <<clientVars, hist, resolving, waiting>>

NextAccount == AccountPost \/ GetRequest \/ StatusRequest \/ DeleteRequest

SpecAccount == InitAccount /\ [][NextAccount]_vars

(* ======================= resolveUserId() alone ========================= *)
\* A users table without its users_email_unique constraint: the variant
\* under which two concurrent creates are expected to leave two rows.
NoUniqueEmail(users, email) == FALSE

\* CONSTRAINT "users_email_unique" UNIQUE("email"): the insert of a second
\* row with this email is answered with an error.
EmailTaken(users, email) == \E u \in users : u.email = email

\* .from('users').select('id, email').eq('email', userIdentifier)
UsersWithEmail(users, email) == {u \in users : u.email = email}

\* retryWithBackoff's catch: the attempt that failed is followed by another
\* one while attempt < maxAttempts; after the last one lastError is thrown
\* to the caller, which goes on at `after`.
Retried(r, after) ==
    IF r.attempt < maxAttempts
    THEN [r EXCEPT !.attempt = r.attempt + 1]
    ELSE [r EXCEPT !.pc = after, !.attempt = 1, !.exhausted = TRUE]

\* A request reaching resolveUserId() with a handle that is not a uuid.
ResolveBegin(p) ==
    /\ resolving[p].pc = "idle"
    /\ ~IsUuidFormat(ClientUserId)
    /\ resolving' = [resolving EXCEPT ![p].pc = "lookup", ![p].attempt = 1]
    /\ UNCHANGED <<clientVars, server, hist, call, waiting>>

\* One attempt of the first lookup: a row found is returned; no row, or the
\* lookup failing on its last attempt (lookupError), leads to the create
\* under a fresh uuidv4().
LookupAttempt(p) ==
    /\ resolving[p].pc = "lookup"
    /\ \E storageOk \in BOOLEAN :
          LET r == resolving[p]
              existingUsers == UsersWithEmail(server.users, ClientUserId.value)
              creating == [r EXCEPT !.pc = "create", !.attempt = 1,
                                    !.newUserId = server.uuid + 1]
          IN  IF storageOk
              THEN IF existingUsers # {}
                   THEN /\ resolving' = [resolving EXCEPT ![p] =
                               [r EXCEPT !.pc = "returned",
                                         !.id = (CHOOSE u \in existingUsers : TRUE).id]]
                        /\ UNCHANGED server
                   ELSE /\ resolving' = [resolving EXCEPT ![p] = creating]
                        /\ server' = [server EXCEPT !.uuid = server.uuid + 1]
              ELSE IF r.attempt < maxAttempts
                   THEN /\ resolving' = [resolving EXCEPT ![p] =
                               [Retried(r, "create") EXCEPT !.faulted = TRUE]]
                        /\ UNCHANGED server
                   ELSE /\ resolving' = [resolving EXCEPT ![p] =
                               [creating EXCEPT !.exhausted = TRUE, !.faulted = TRUE]]
                        /\ server' = [server EXCEPT !.uuid = server.uuid + 1]
    /\ UNCHANGED <<clientVars, hist, call, waiting>>

\* One attempt of the insert: the row inserted is returned; the unique
\* constraint's error and a storage error are both thrown inside
\* retryWithBackoff, and after the last attempt (createError) the lookup is
\* made again.
CreateAttempt(p) ==
    /\ resolving[p].pc = "create"
    /\ \E storageOk \in BOOLEAN :
          LET r == resolving[p]
              conflict == EmailTaken(server.users, ClientUserId.value)
          IN  IF storageOk /\ ~conflict
              THEN /\ server' = [server EXCEPT !.users = @ \cup
                                      {[id |-> r.newUserId, email |-> ClientUserId.value]}]
                   /\ resolving' = [resolving EXCEPT ![p] =
                          [r EXCEPT !.pc = "returned", !.id = r.newUserId]]
              ELSE /\ resolving' = [resolving EXCEPT ![p] =
                          [Retried(r, "refetch") EXCEPT
                              !.faulted = r.faulted \/ ~storageOk,
                              !.lostRace = r.lostRace \/ (storageOk /\ conflict)]]
                   /\ UNCHANGED server
    /\ UNCHANGED <<clientVars, hist, call, waiting>>

\* One attempt of the lookup after createError: a row found is returned; no
\* row, or the lookup failing on its last attempt, ends in the throw of
\* 'Failed to create or retrieve user'.
RefetchAttempt(p) ==
    /\ resolving[p].pc = "refetch"
    /\ \E storageOk \in BOOLEAN :
          LET r == resolving[p]
              data == UsersWithEmail(server.users, ClientUserId.value)
          IN  IF storageOk
              THEN IF data # {}
                   THEN resolving' = [resolving EXCEPT ![p] =
                            [r EXCEPT !.pc = "returned",
                                      !.id = (CHOOSE u \in data : TRUE).id]]
                   ELSE resolving' = [resolving EXCEPT ![p] = [r EXCEPT !.pc = "thrown"]]
              ELSE resolving' = [resolving EXCEPT ![p] =
                       [Retried(r, "thrown") EXCEPT !.faulted = TRUE]]
    /\ UNCHANGED <<clientVars, server, hist, call, waiting>>

InitResolve == ClientAtRest /\ server = EmptyServer /\ call = NoCall
               /\ resolving = NotResolving /\ waiting = NotWaiting
    /\ waiting = NotWaiting

NextResolve ==
    \/ \E p \in Resolvers : ResolveBegin(p)
    \/ \E p \in Resolvers : LookupAttempt(p)
    \/ \E p \in Resolvers : CreateAttempt(p)
    \/ \E p \in Resolvers : RefetchAttempt(p)

SpecResolve == InitResolve /\ [][NextResolve]_vars

(* ========================= waitForOnline() ============================= *)
\* The longest timeoutMs a call is given, in ticks of the clock.
MaxTimeout == 2

\* const unsubscribe = effect(...) ; unsubscribe(): effect() returns an
\* EffectRef, an object with destroy() and not a function, so the call
\* throws a TypeError; the effect it was meant to end stays as it was.
CallEffectRef(effectActive) == [threw |-> TRUE, effect |-> effectActive]

\* waitForOnline(timeoutMs) up to its return: true at once when online;
\* else the promise is created with its effect (whose first run is
\* scheduled) and its timer.
WaitForOnline(w) ==
    /\ waiting[w].pc = "idle"
    /\ \E timeoutMs \in 1..MaxTimeout :
          waiting' = [waiting EXCEPT ![w] =
              IF online
              THEN [@ EXCEPT !.pc = "resolved", !.result = TRUE]
              ELSE [@ EXCEPT !.pc = "pending", !.effect = TRUE, !.dirty = TRUE,
                             !.timer = "armed", !.remaining = timeoutMs]]
    /\ UNCHANGED <<clientVars, server, hist, call, resolving>>

\* The subscription publishing a new isOnline value: every effect that
\* reads the signal is scheduled to run again.
Publish ==
    /\ online' = ~online
    /\ waiting' = [w \in Waiters |-> [waiting[w] EXCEPT !.dirty = waiting[w].effect]]
    /\ UNCHANGED <<call, resolving, config, db, syncQueue, queueCount, hasPendingChanges,
                   queueSyncError, queueLastSyncTime, isSyncing, consecutiveFailures,
                   lastSyncTime, syncError, pc, run, net, runNo, server, hist>>

\* The effect's callback running: if (isOnline()) { clearTimeout(timeoutId);
\* unsubscribe(); resolve(true); } -- the statements after one that throws
\* are not reached. A promise already resolved keeps its value.
EffectRuns(w) ==
    /\ waiting[w].effect
    /\ waiting[w].dirty
    /\ LET r == waiting[w]
           u == CallEffectRef(r.effect)
       IN  waiting' = [waiting EXCEPT ![w] =
              IF ~online THEN [r EXCEPT !.dirty = FALSE]
              ELSE [r EXCEPT !.dirty = FALSE,
                             !.timer = IF r.timer = "armed" THEN "cleared" ELSE r.timer,
                             !.effect = u.effect,
                             !.pc = IF ~u.threw /\ r.pc = "pending" THEN "resolved" ELSE r.pc,
                             !.result = IF ~u.threw /\ r.pc = "pending" THEN TRUE
                                        ELSE r.result]]
    /\ UNCHANGED <<clientVars, server, hist, call, resolving>>

\* Time passing for the timers that are armed.
Tick ==
    /\ \E w \in Waiters : waiting[w].timer = "armed" /\ waiting[w].remaining > 0
    /\ \A w \in Waiters : waiting[w].timer = "armed" => waiting[w].remaining > 0
    /\ waiting' = [w \in Waiters |->
          IF waiting[w].timer = "armed"
          THEN [waiting[w] EXCEPT !.remaining = @ - 1]
          ELSE waiting[w]]
    /\ UNCHANGED <<clientVars, server, hist, call, resolving>>

\* The timer's callback after timeoutMs: unsubscribe(); resolve(false);
TimerFires(w) ==
    /\ waiting[w].timer = "armed"
    /\ waiting[w].remaining = 0
    /\ LET r == waiting[w]
           u == CallEffectRef(r.effect)
       IN  waiting' = [waiting EXCEPT ![w] =
              [r EXCEPT !.timer = "fired",
                        !.effect = u.effect,
                        !.dirty = r.dirty /\ u.effect,
                        !.pc = IF ~u.threw /\ r.pc = "pending" THEN "resolved" ELSE r.pc,
                        !.result = IF ~u.threw /\ r.pc = "pending" THEN FALSE
                                   ELSE r.result]]
    /\ UNCHANGED <<clientVars, server, hist, call, resolving>>

InitWait ==
    /\ config = [batchSize |-> DefaultBatchSize]
    /\ online \in BOOLEAN
    /\ db = [r \in RecordIds |-> NoRecord]
    /\ syncQueue = <<>>
    /\ queueCount = 0
    /\ hasPendingChanges = FALSE
    /\ consecutiveFailures = 0
    /\ syncError = ""
    /\ queueSyncError = ""
    /\ queueLastSyncTime = 0
    /\ isSyncing = FALSE
    /\ lastSyncTime = 0
    /\ pc = [c \in Callers |-> "idle"]
    /\ run = [c \in Callers |-> IdleRun]
    /\ net = [c \in Callers |-> NoNet]
    /\ runNo = 0
    /\ hist = NoHist
    /\ server = EmptyServer
    /\ call = NoCall
    /\ resolving = NotResolving
    /\ waiting = NotWaiting

NextWait ==
    \/ \E w \in Waiters : WaitForOnline(w)
    \/ Publish
    \/ \E w \in Waiters : EffectRuns(w)
    \/ Tick
    \/ \E w \in Waiters : TimerFires(w)

SpecWait == InitWait /\ [][NextWait]_vars

(* ======================= properties of Spec ============================ *)
RunningPcs == {"getPending", "batch", "post", "finish"}
Running == {c \in Callers : pc[c] \in RunningPcs}
QueueUnchanged == UNCHANGED <<syncQueue, queueCount, hasPendingChanges>>

\* C1, on a step: a syncNow() call made by c while a run is in progress
\* returns false, sends nothing, and leaves the queue, consecutiveFailures,
\* the guard flag and the run in progress as they were.
C1_RefusedStep ==
    \A c \in Callers :
        (isSyncing /\ pc[c] = "idle" /\ pc'[c] # "idle") =>
            /\ pc'[c] = "retFalse"
            /\ QueueUnchanged
            /\ UNCHANGED <<net, consecutiveFailures, isSyncing, run, server, hist>>

\* C1 (single-flight): at any time at most one syncNow() run is in progress,
\* isSyncing is set exactly while one is, only the run in progress has a
\* request in flight, and a call made meanwhile is a no-op returning false.
C1_SingleFlight ==
    /\ [](/\ Cardinality(Running) <= 1
          /\ isSyncing <=> Running # {}
          /\ \A c \in Callers : net[c].state # "none" => pc[c] = "post")
    /\ [][C1_RefusedStep]_vars

\* C1 witness: the automatic run has its request in flight and a manual
\* call made meanwhile has returned false.
C1_Witness ==
    /\ pc["auto"] = "post"
    /\ net["auto"].state = "req"
    /\ pc["manual"] = "retFalse"
    /\ isSyncing

\* C2: every queue entry with synced = TRUE was part of a request that the
\* server answered with success, its record among the request's elements;
\* for every operation kind and for entries whose record could not be read.
C2_SyncedOnlyAfterConfirmed ==
    \A k \in DOMAIN syncQueue : syncQueue[k].synced => syncQueue[k].id \in hist.confirmed

\* C3 (coalescing): the request payloads of one run carry at most one
\* element for any record, however many pending entries name it.
C3_SentOncePerRun == \A rid \in RecordIds : hist.sent[rid] <= 1

\* C4: a record for which a successful response returned a mapping reads
\* back from the store with cloudId equal to the mapping's id.
C4_MappingPersisted ==
    \A rid \in RecordIds :
        (db[rid].exists /\ hist.lastMapped[rid] # NoCloudId) =>
            db[rid].cloudId = hist.lastMapped[rid]

\* The server rows kept for local record rid.
RowsFor(rid) ==
    {r \in server.templates \cup server.instances \cup server.logs : r.local_id = rid}

\* C5 (identifier stability): a record synced successfully in an earlier
\* run and again in the current one was given the same id both times, and
\* the server holds exactly one row for it.
C5_IdStable ==
    \A rid \in RecordIds :
        (hist.prevIds[rid] # {} /\ hist.curIds[rid] # {}) =>
            /\ hist.curIds[rid] = hist.prevIds[rid]
            /\ Cardinality(RowsFor(rid)) = 1

\* The step of c that ends its loop normally (markMultipleAsSynced did not
\* throw): Finish leaves syncError null, FinishFails sets it.
FinishStep(c) == pc[c] = "finish" /\ pc'[c] # "finish" /\ syncError' = ""
BatchesOf(c) == 1..NumBatches(run[c].pending, EffectiveBatchSize)
EntriesOf(c, b) == Range(BatchAt(run[c].pending, EffectiveBatchSize, b))

\* C8, on the step that ends a run: every batch of the run was processed,
\* each batch with data was submitted, and each entry is then synced exactly
\* when its own batch succeeded.
C8_FinishStep ==
    \A c \in Callers :
        FinishStep(c) =>
            /\ Len(hist.outcomes) = NumBatches(run[c].pending, EffectiveBatchSize)
            /\ \A b \in BatchesOf(c) :
                  /\ ~NoDataToSend(buildSyncPayload(BatchAt(run[c].pending,
                                                           EffectiveBatchSize, b), db))
                        => hist.outcomes[b].posted
                  /\ \A item \in EntriesOf(c, b) :
                        syncQueue'[item.id].synced = hist.outcomes[b].ok

C10_FinishStep ==
    \A c \in Callers :
        FinishStep(c) =>
            \A b \in BatchesOf(c) :
                (b <= Len(hist.outcomes) /\ ~hist.outcomes[b].ok
                    /\ hist.outcomes[b].written # {}) =>
                    \A item \in EntriesOf(c, b) :
                        syncQueue'[item.id].synced =
                            (item.dataType \in hist.outcomes[b].written)

\* C10 (partial failure): the client marks the entries of the succeeded
\* types synced and leaves the entries of the failed type pending.
C10_PartialFailure == [][C10_FinishStep]_vars

AllCarryServerId(body) ==
    /\ TypesIn(body) # {}
    /\ \A t \in DataTypes : \A k \in DOMAIN ElementsIn(body, t) :
          ElementsIn(body, t)[k].cloudId # NoCloudId

\* C7 (server idempotence): when a batch whose entities all carry their
\* serverId is submitted twice in a row and accepted both times, the rows of
\* each type after the second submission equal, in number and content, those
\* after the first.
C7_Idempotent ==
    (/\ call.op = "post"
     /\ call.n >= 2
     /\ call.body = call.prevBody
     /\ AllCarryServerId(call.body)
     /\ call.success
     /\ call.prevSuccess) =>
        \A t \in DataTypes : TableOf(server, t) = TableOf(call.before, t)

\* The rows of type t the last request asked for are in the table, under
\* the ids its response maps them to.
Persisted(t) ==
    LET elems == ElementsIn(call.body, t)
        maps == MappingsIn(call.data, t)
    IN  /\ Len(maps) = Len(elems)
        /\ \A k \in DOMAIN elems :
              \E r \in TableOf(server, t) :
                  /\ r.id = maps[k].id
                  /\ r.local_id = elems[k].id
                  /\ r.content = elems[k].content

\* C9 (per-type isolation): in a handled POST /sync every type the request
\* carries is attempted, whatever happened to the other types, and the rows
\* of every type whose storage call succeeds are persisted.
C9_TypeIsolation ==
    (call.op = "post" /\ call.status = 200) =>
        \A t \in TypesIn(call.body) :
            /\ t \in call.attempted
            /\ t \notin call.failing => Persisted(t)

\* C9 witness: a request carried all three types, the templates' upsert
\* failed, and the instance and the log were persisted all the same.
C9_Witness ==
    /\ call.op = "post"
    /\ call.status = 200
    /\ TypesIn(call.body) = DataTypes
    /\ call.failing = {"template"}
    /\ call.errors = <<"Templates">>
    /\ server.templates = call.before.templates
    /\ Persisted("instance")
    /\ Persisted("log")

\* The sync-ledger row that the last request, handled at the clock's present
\* reading, leaves when its upsert is made: the numbers of rows its response
\* reports written, and 'error' exactly when some type failed.
WrittenIn(t) == IF call.status = 200 THEN Len(MappingsIn(call.data, t)) ELSE 0
LedgerRowOfCall(l) ==
    /\ l.last_sync_time = server.now
    /\ l.synced_templates = WrittenIn("template")
    /\ l.synced_instances = WrittenIn("instance")
    /\ l.synced_logs = WrittenIn("log")
    /\ (l.status = "error") <=> (call.status # 200 \/ call.errors # <<>>)

\* C17 (ledger update after every attempt): every handled POST /sync that
\* carries a userId, the store accepting the ledger's upsert, leaves the
\* account's sync-ledger row written by it, the request that could not
\* resolve the account included.
C17_LedgerAfterEveryAttempt ==
    (call.op = "post" /\ call.body.userId.kind # "missing" /\ call.ledgerOk) =>
        \E l \in server.ledger : LedgerRowOfCall(l)

\* errors.push(`Templates: ...`), `Instances: ...`, `Logs: ...`, in the
\* handler's order, for the types in `failed`.
ErrorsFor(failed) ==
    LET order == <<"template", "instance", "log">>
        label(t) == CASE t = "template" -> "Templates"
                      [] t = "instance" -> "Instances"
                      [] OTHER -> "Logs"
        hit == SelectSeq(order, LAMBDA t : t \in failed)
    IN  [k \in 1..Len(hit) |-> label(hit[k])]

\* C18 (POST /sync response content): in the answer of a handled request
\* every type whose upsert failed has an empty list, every other type has
\* one (id, localId) pair per payload element, in the payload's order, each
\* naming a row that is in the table; success is true exactly when no type
\* failed, and the error field joins the messages of the failed types.
C18_ResponseContent ==
    (call.op = "post" /\ call.status = 200) =>
        /\ \A t \in DataTypes :
              IF t \in call.failing
              THEN MappingsIn(call.data, t) = <<>>
              ELSE /\ Persisted(t)
                   /\ \A k \in DOMAIN MappingsIn(call.data, t) :
                         MappingsIn(call.data, t)[k].localId = ElementsIn(call.body, t)[k].id
        /\ call.success <=> (call.failing = {})
        /\ call.errors = ErrorsFor(call.failing)

\* C18 witness: a request carried all three types, one of them under the
\* cloudId the client held; the instances' upsert failed; the answer has a
\* pair for the template and for the log, none for the instance, success
\* false and the instances' message alone.
C18_Witness ==
    /\ call.op = "post"
    /\ call.status = 200
    /\ call.failing = {"instance"}
    /\ \E k \in DOMAIN call.body.workoutTemplates :
          call.body.workoutTemplates[k].cloudId # NoCloudId
    /\ Len(call.data.workoutTemplates) = 1
    /\ Len(call.data.exerciseLogs) = 1
    /\ call.data.workoutInstances = <<>>
    /\ ~call.success
    /\ call.errors = <<"Instances">>

(* ================== properties of Spec, continued ====================== *)
\* C11, on a step: the automatic trigger begins a run (sets isSyncing and
\* goes on to read the queue) only from a state where connectivity is up,
\* the queue has pending entries, no sync is running and
\* consecutiveFailures < maxConsecutiveFailures.
C11_StartStep ==
    (pc["auto"] = "idle" /\ pc'["auto"] # "idle") =>
        /\ online
        /\ Len(getPendingItems(syncQueue)) > 0
        /\ ~isSyncing
        /\ consecutiveFailures < maxConsecutiveFailures
        /\ isSyncing'

C12_FinishStep ==
    \A c \in Callers :
        (FinishStep(c) /\ consecutiveFailures' > consecutiveFailures) =>
            \A b \in DOMAIN hist.outcomes : ~hist.outcomes[b].ok

\* C12: consecutiveFailures is incremented at the end of a run only when
\* every batch of that run failed.
C12_OnlyWhenAllFailed == [][C12_FinishStep]_vars

\* C13, on a step: a manual syncNow() made while online with no run in
\* progress is attempted (it goes on to read the queue), also when
\* consecutiveFailures has reached maxConsecutiveFailures.
C13_ManualStep ==
    (pc["manual"] = "idle" /\ pc'["manual"] # "idle" /\ online /\ ~isSyncing) =>
        pc'["manual"] = "getPending"

\* C13 (recovery from Suspended): with consecutiveFailures at its maximum a
\* manual syncNow() is still attempted.
C13_ManualAttempted == [][C13_ManualStep]_vars

\* A step on which a queue operation ran to its end: an entry was added, or
\* a run's markMultipleAsSynced marked entries and the run ended normally.
QueueOperationStep ==
    \/ Len(syncQueue') > Len(syncQueue)
    \/ \E c \in Callers : FinishStep(c) /\ syncQueue' # syncQueue

\* C22 (queue count): after every queue operation the count shown to the
\* user is the number of pending entries.
C22_CountIsPending ==
    [][QueueOperationStep => queueCount' = Len(getPendingItems(syncQueue'))]_vars

\* A run that ends having delivered nothing: it posted at least one batch
\* and every batch of it failed.
EveryBatchFailed ==
    /\ hist.outcomes # <<>>
    /\ \A b \in DOMAIN hist.outcomes : ~hist.outcomes[b].ok

\* C23, on a step: a call refused because the client is offline, and the
\* end of a run in which every batch failed, leave lastSyncTime as it was.
C23_Step ==
    \A c \in Callers :
        /\ (pc[c] = "idle" /\ pc'[c] # "idle" /\ ~online) => UNCHANGED lastSyncTime
        /\ (pc[c] = "finish" /\ pc'[c] # "finish" /\ EveryBatchFailed)
              => UNCHANGED lastSyncTime

\* C23 (lastSyncTime frame): a syncNow() attempt that delivers nothing
\* while the server cannot be reached does not change lastSyncTime.
C23_LastSyncTimeKept == [][C23_Step]_vars

\* C24, on a step: at the end of a run in which at least one batch failed
\* the orchestrator's syncError is set (not null).
C24_Step ==
    \A c \in Callers :
        (pc[c] = "finish" /\ pc'[c] # "finish"
           /\ \E b \in DOMAIN hist.outcomes : ~hist.outcomes[b].ok)
        => syncError' # ""

\* C24 (visible last error): after a run with a failed batch the error the
\* status indicator displays is non-null.
C24_ErrorVisible == [][C24_Step]_vars

\* The elements of a request body, of every type.
AllElements(payload) ==
    Range(payload.workoutTemplates) \cup Range(payload.workoutInstances)
        \cup Range(payload.exerciseLogs)

\* C25, on the step that builds a batch's payload and posts it: every
\* element sent is a record the store holds, with the content the store
\* holds for it at that moment, and every sendable entry of the batch has
\* its element.
C25_BuildStep ==
    \A c \in Callers :
        (pc[c] = "batch" /\ pc'[c] = "post") =>
            /\ \A e \in AllElements(net'[c].payload) :
                  db[e.id].exists /\ e.content = db[e.id].content
            /\ \A k \in DOMAIN CurrentBatch(c) :
                  Sendable(db, CurrentBatch(c)[k]) =>
                      \E e \in AllElements(net'[c].payload) :
                          e.id = CurrentBatch(c)[k].recordId

\* C25 (reference, not snapshot): a queue entry holds no content of its
\* entity, and what is sent for an entity is what the store holds when the
\* batch's payload is built.
C25_SendsCurrentContent ==
    /\ [](\A k \in DOMAIN syncQueue :
            DOMAIN syncQueue[k] = {"id", "dataType", "operation", "recordId", "synced"})
    /\ [][C25_BuildStep]_vars

\* C25 witness: a template was created (content "a") and edited (content
\* "b") before any run; the batch of its 'create' entry alone is in flight
\* and carries "b".
C25_Witness ==
    \E c \in Callers :
        /\ net[c].state = "req"
        /\ config.batchSize = 1
        /\ run[c].bi = 1
        /\ Len(run[c].pending) = 2
        /\ run[c].pending[1].operation = "create"
        /\ run[c].pending[1].recordId = "t1"
        /\ Len(net[c].payload.workoutTemplates) = 1
        /\ net[c].payload.workoutTemplates[1].content = "b"

\* A step of the sync engine: a run of some caller starts, advances or ends,
\* or one of its requests changes state. User operations leave all three.
SyncEngineStep == pc' # pc \/ run' # run \/ net' # net

\* The records of the store and their keys are what they were.
SameRecordSet == \A rid \in RecordIds : db'[rid].exists = db[rid].exists

\* C26 (frame of the sync engine on the Entity Store): a step of the sync
\* engine removes no record, adds none, changes no record's localId, and
\* writes of a record nothing but its serverId (cloudId): content and
\* updatedAt stay as the user's operations left them.
C26_OnlyServerIdWritten ==
    [][SyncEngineStep =>
          /\ SameRecordSet
          /\ \A rid \in RecordIds :
                /\ db'[rid].content = db[rid].content
                /\ db'[rid].updatedAt = db[rid].updatedAt]_vars

\* The batches 1..k of a run's pending entries, one after another.
RECURSIVE BatchesUpTo(_, _, _)
BatchesUpTo(items, batchSize, k) ==
    IF k = 0 THEN <<>>
    ELSE BatchesUpTo(items, batchSize, k - 1) \o BatchAt(items, batchSize, k)

InRun(c) == pc[c] \in {"batch", "post", "finish"}

\* The batches of a run in progress are consecutive slices of the pending
\* entries read at its start: put one after another they are those entries
\* (each entry in exactly one batch), every batch but the last has batchSize
\* entries and the last has between 1 and batchSize.
C27_Partition ==
    \A c \in Callers :
        InRun(c) =>
            LET items == run[c].pending
                n == NumBatches(items, EffectiveBatchSize)
            IN  /\ BatchesUpTo(items, EffectiveBatchSize, n) = items
                /\ \A k \in 1..n :
                      LET len == Len(BatchAt(items, EffectiveBatchSize, k))
                      IN  /\ 1 <= len /\ len <= EffectiveBatchSize
                          /\ k < n => len = EffectiveBatchSize
                /\ run[c].bi \in 1..(n + 1)
                /\ pc[c] = "finish" <=> run[c].bi = n + 1

\* The steps of a run's loop: a request is started only for the batch the
\* loop is at, with no request of the run outstanding, and carries elements
\* only of entries at that batch's positions; the loop moves on by exactly
\* one batch, only by a step that ends the current batch (its request
\* answered or failed, or nothing to send), and the pending entries read at
\* the start stay as read.
C27_LoopStep ==
    \A c \in Callers :
        (InRun(c) /\ InRun(c)') =>
            /\ run'[c].pending = run[c].pending
            /\ run'[c].bi \in {run[c].bi, run[c].bi + 1}
            /\ run'[c].bi = run[c].bi + 1 =>
                  /\ pc[c] \in {"batch", "post"}
                  /\ net'[c].state = "none"
            /\ (net[c].state # "req" /\ net'[c].state = "req") =>
                  /\ net[c].state = "none"
                  /\ pc[c] = "batch" /\ run'[c].bi = run[c].bi
                  /\ net'[c].included \subseteq
                        {run[c].pending[j].id :
                           j \in {i \in DOMAIN run[c].pending :
                                    /\ (run[c].bi - 1) * EffectiveBatchSize < i
                                    /\ i <= run[c].bi * EffectiveBatchSize}}

\* C27 (batching): one run partitions the pending entries read at its start
\* into consecutive batches of at most batchSize entries, every entry in
\* exactly one batch, and submits them one after another in partition
\* order, the next request starting only after the previous batch has
\* completed or failed.
C27_Batching == []C27_Partition /\ [][C27_LoopStep]_vars

\* C27 witness: with batchSize 1 a run over two pending entries has had its
\* first batch's request fail and has its second batch's request in flight.
C27_Witness ==
    \E c \in Callers :
        /\ config.batchSize = 1
        /\ Len(run[c].pending) = 2
        /\ run[c].bi = 2
        /\ run[c].synced = <<>>
        /\ net[c].state = "req"
        /\ net[c].included = {run[c].pending[2].id}

(* ======================= properties of SpecLive ======================== *)
\* C14 (at-least-once convergence): with connectivity up (and staying up)
\* and the server accepting, every queue entry that is pending, after a
\* reload too, is eventually marked synced with no manual call.
C14_Convergence ==
    \A k \in 1..MaxQueue :
        (online /\ k \in DOMAIN syncQueue /\ ~syncQueue[k].synced)
            ~> (k \in DOMAIN syncQueue /\ syncQueue[k].synced)

(* ====================== properties of SpecResolve ====================== *)
\* C15 (account-resolution idempotence): in every interleaving of two
\* resolutions of the same handle there is at most one account row for it,
\* the calls that return give that row's identifier (so the same one),
\* and a call is answered with an error only after a storage call failed:
\* a create that lost the race is answered by the lookup made again.
C15_OneAccount ==
    LET rows == UsersWithEmail(server.users, ClientUserId.value)
    IN  /\ Cardinality(rows) <= 1
        /\ \A p \in Resolvers :
              resolving[p].pc = "returned" => \E u \in rows : u.id = resolving[p].id
        /\ \A p, q \in Resolvers :
              (resolving[p].pc = "returned" /\ resolving[q].pc = "returned") =>
                  resolving[p].id = resolving[q].id
        /\ \A p \in Resolvers : resolving[p].pc = "thrown" => resolving[p].faulted

\* C15 witness: both calls looked up before either created; one created the
\* row, the other lost the race with no storage failure, and both returned.
C15_Witness ==
    /\ \A p \in Resolvers : resolving[p].pc = "returned" /\ ~resolving[p].faulted
    /\ \E p \in Resolvers : resolving[p].lostRace
    /\ Cardinality(UsersWithEmail(server.users, ClientUserId.value)) = 1

\* C16 (identity-resolution retry): a storage call of resolveUserId that
\* failed on all its attempts is a hard failure: the call has thrown and
\* makes no further storage call.
C16_ExhaustedIsHardFailure ==
    \A p \in Resolvers : resolving[p].exhausted => resolving[p].pc = "thrown"

(* ====================== properties of SpecAccount ====================== *)
\* C19 (GET /sync/{userId}): the answer has, for every row of the resolved
\* account stored with canonical id U and local_id L, an element with
\* id = U and localId = L.
C19_BothIdentifiers ==
    (call.op = "get" /\ call.status = 200) =>
        \A t \in DataTypes : \A r \in RowsOfUser(TableOf(server, t), call.uid) :
            \E e \in MappingsIn(call.data, t) :
                e.id = UuidText(r.id) /\ e.localId = Text(r.local_id)

\* The rows and the ledger row that s holds for the accounts in `ids`.
DataOf(s, ids) ==
    [templates |-> {r \in s.templates : r.user_id \in ids},
     instances |-> {r \in s.instances : r.user_id \in ids},
     logs |-> {r \in s.logs : r.user_id \in ids},
     ledger |-> {r \in s.ledger : r.user_id \in ids}]
NoData == [templates |-> {}, instances |-> {}, logs |-> {}, ledger |-> {}]
AllUserIds(s) == {u.id : u \in s.users}

\* C20 (DELETE /sync/{userId}): after success = true the resolved account
\* has no template, instance, log or ledger row and the other accounts'
\* rows are as before; success = false is answered only when the account's
\* data is as it was before the request.
C20_DeleteAllOrNothing ==
    call.op = "delete" =>
        /\ call.success =>
              /\ DataOf(server, {call.uid}) = NoData
              /\ DataOf(server, AllUserIds(server) \ {call.uid}) =
                     DataOf(call.before, AllUserIds(server) \ {call.uid})
        /\ ~call.success =>
              DataOf(server, AllUserIds(server)) = DataOf(call.before, AllUserIds(server))

(* ======================= properties of SpecGuard ======================= *)
\* C28 (every run ends and releases the guard): whenever isSyncing is true
\* it eventually becomes false again, whichever way the run goes (empty
\* queue, batches succeeding or failing, a storage exception while reading
\* the queue or marking entries synced, a request cut by the timeout).
C28_GuardReleased == isSyncing ~> ~isSyncing

\* C28 witness: the guard is set and the run's request is in flight,
\* unanswered, with the connection down: only the timeout can end it.
C28_Witness ==
    \E c \in Callers :
        /\ isSyncing
        /\ pc[c] = "post"
        /\ net[c].state = "req"
        /\ ~online

\* The tables of the backing store: account, entity and ledger rows.
Tables(s) ==
    [users |-> s.users, templates |-> s.templates, instances |-> s.instances,
     logs |-> s.logs, ledger |-> s.ledger]

\* A step that handles one of the two read-only requests.
ReadOnlyRequestStep == call'.n = call.n + 1 /\ call'.op \in {"get", "status"}

\* C30 (read-only endpoints): GET /sync/{userId} and GET
\* /sync/{userId}/status leave the backing store unchanged for every input,
\* a handle that no account has yet included: no account, entity or ledger
\* row is created, changed or deleted.
C30_ReadsLeaveStore ==
    [][ReadOnlyRequestStep => Tables(server') = Tables(server)]_vars

(* ======================= properties of SpecType ======================== *)
\* The callers with a POST /api/sync sent and not yet settled at the client.
InFlight == {c \in DOMAIN net : net[c].state # "none"}

\* C29 (one request at a time): at most one sync request of the client is
\* in flight, whichever public operation issued it; a syncType() call made
\* during a syncNow() run issues no request until the running one is over.
C29_OneRequestInFlight == Cardinality(InFlight) <= 1

(* ======================= properties of SpecWait ======================== *)
\* C21 (waitForOnline): a call that returned at once did so with true; a
\* call whose effect saw the monitor online before the timeout (its timer
\* is cleared) has resolved with true, one whose timer fired has resolved
\* with false, and a resolved call has no effect and no timer left.
C21_WaitForOnline ==
    \A w \in Waiters :
        /\ waiting[w].timer = "cleared" =>
              waiting[w].pc = "resolved" /\ waiting[w].result
        /\ waiting[w].timer = "fired" =>
              waiting[w].pc = "resolved" /\ ~waiting[w].result
        /\ waiting[w].pc = "resolved" =>
              ~waiting[w].effect /\ waiting[w].timer # "armed"

============================================================================
